---- MODULE Spec2Model ----
(***************************************************************************)
(* A model of the YAVS store format library (src/python/yavs.py) and of    *)
(* its demonstration driver (src/python/example.py).                       *)
(*                                                                         *)
(* The store file is modelled byte for byte: `data` is the sequence of the *)
(* file's bytes (0..255) and `exists` says whether the path exists.  The   *)
(* struct.pack / struct.unpack conversions are computed (little-endian),   *)
(* str.encode("utf-8") is computed from the code points.                   *)
(***************************************************************************)
EXTENDS Integers, Sequences, FiniteSets, TLC

VARIABLES
    exists,    \* whether a file exists at the path
    data,      \* the bytes of the file
    pc,        \* per caller: where it stands inside insert ("idle": no call)
    loc,       \* per caller: insert's local variables
    result,    \* per caller: the outcome of its last library call
    created,   \* history: the last create call ([ok, dim])
    calls,     \* history: insert calls since the last create
    nSucc,     \* history: insert calls that returned normally since create
    appended,  \* history: complete records appended since create
    began,     \* history: per caller, the file size and the header count
               \* when its latest insert began
    dpc,       \* the driver script's position (line of example.py)
    dstart     \* history: whether the path existed when the driver started

vars == <<exists, data, pc, loc, result, created, calls, nSucc, appended,
          began, dpc, dstart>>

(***************************************************************************)
(* Bounds of the model.                                                    *)
(***************************************************************************)
MaxInserts == 2     \* insert calls per created store
MaxDim == 1         \* largest ordinary dimension passed to create

ProcIds == {1, 2}

(***************************************************************************)
(* Constants of yavs.py.                                                   *)
(***************************************************************************)
MAGIC == <<89, 65, 86, 83>>

VERSION == 1

RESERVED_SIZE == 16

HEADER_SIZE == 4 + 4 + 8 + 4 + RESERVED_SIZE

(***************************************************************************)
(* struct.pack / struct.unpack, bytes, str.encode.                         *)
(***************************************************************************)
Min(a, b) == IF a < b THEN a ELSE b

Max(a, b) == IF a > b THEN a ELSE b

Zeros(n) == [i \in 1..n |-> 0]

RECURSIVE PackLE(_, _)
\* the n low-order bytes of x, least significant first
PackLE(x, n) == IF n = 0 THEN <<>> ELSE <<x % 256>> \o PackLE(x \div 256, n - 1)

RECURSIVE UnpackLE(_)
\* the unsigned integer a little-endian byte string holds
UnpackLE(b) == IF b = <<>> THEN 0 ELSE Head(b) + 256 * UnpackLE(Tail(b))

\* struct.pack("<I", x) raises struct.error unless 0 <= x <= 2^32 - 1
CanPackI(x) == x >= 0 /\ (x \div 65536) < 65536

PackI(x) == PackLE(x, 4)

\* struct.pack("<Q", x) raises struct.error unless 0 <= x <= 2^64 - 1
CanPackQ(x) == x >= 0

PackQ(x) == PackLE(x, 8)

\* struct.pack("<f", v) for the float values the model uses
PackF(v) ==
    CASE v = "1.0" -> <<0, 0, 128, 63>>
      [] v = "-2.5" -> <<0, 0, 32, 192>>
      [] v = "0.0" -> <<0, 0, 0, 0>>

RECURSIVE PackEmbedding(_)
\* struct.pack("<" + "f" * dim, *embedding)
PackEmbedding(e) == IF e = <<>> THEN <<>> ELSE PackF(Head(e)) \o PackEmbedding(Tail(e))

\* the UTF-8 encoding of one code point
Utf8Char(c) ==
    IF c < 128 THEN <<c>>
    ELSE IF c < 2048 THEN <<192 + (c \div 64), 128 + (c % 64)>>
    ELSE IF c < 65536 THEN
        <<224 + (c \div 4096), 128 + ((c \div 64) % 64), 128 + (c % 64)>>
    ELSE <<240 + (c \div 262144), 128 + ((c \div 4096) % 64),
           128 + ((c \div 64) % 64), 128 + (c % 64)>>

RECURSIVE Utf8(_)
\* str.encode("utf-8")
Utf8(s) == IF s = <<>> THEN <<>> ELSE Utf8Char(Head(s)) \o Utf8(Tail(s))

\* f.read(n) at offset off: at most n bytes, fewer at end of file
Read(d, off, n) == SubSeq(d, off + 1, Min(off + n, Len(d)))

\* The same on a file opened "w+b", which truncates it.
OverwriteTruncating(d, off, b) == Zeros(off) \o b

\* f.seek(off); f.write(b) on a file opened "r+b"
Overwrite(d, off, b) ==
    [i \in 1..Max(Len(d), off + Len(b)) |->
        IF i > off /\ i <= off + Len(b) THEN b[i - off]
        ELSE IF i <= Len(d) THEN d[i] ELSE 0]

(***************************************************************************)
(* create                                                                  *)
(***************************************************************************)
\* create writing the dimension before the record count.
CreateWritesSwapped(dim) ==
    IF CanPackI(dim)
    THEN MAGIC \o PackI(VERSION) \o PackI(dim) \o PackQ(0) \o Zeros(RESERVED_SIZE)
    ELSE MAGIC \o PackI(VERSION)

\* The bytes create leaves in the file: the whole header, or, when
\* struct.pack("<I", dim) raises, the three fields written before it (the
\* with block closes, and so flushes, the file on the way out).
CreateWrites(dim) ==
    IF CanPackI(dim)
    THEN MAGIC \o PackI(VERSION) \o PackQ(0) \o PackI(dim) \o Zeros(RESERVED_SIZE)
    ELSE MAGIC \o PackI(VERSION) \o PackQ(0)

(***************************************************************************)
(* get_header_info                                                         *)
(***************************************************************************)
HdrErr(e) == [err |-> e, n |-> 0, dim |-> 0]

\* A version check that accepts later versions too.
VersionOkLax(version) == version >= VERSION

VersionOk(version) == version = VERSION

\* The outcome of get_header_info on a path: err is "ok" or the error raised.
\*   "NotFound"        open() raises FileNotFoundError
\*   "InvalidFormat"   ValueError("Not a valid YAVS file.")
\*   "VersionMismatch" ValueError("File version mismatch. ...")
\*   "StructError"     struct.unpack on a short read
GetHeaderInfo(ex, d) ==
    IF ~ex THEN HdrErr("NotFound")
    ELSE IF Read(d, 0, 4) # MAGIC THEN HdrErr("InvalidFormat")
    ELSE IF Len(Read(d, 4, 4)) # 4 THEN HdrErr("StructError")
    ELSE IF ~VersionOk(UnpackLE(Read(d, 4, 4))) THEN HdrErr("VersionMismatch")
    ELSE IF Len(Read(d, 8, 8)) # 8 THEN HdrErr("StructError")
    ELSE IF Len(Read(d, 16, 4)) # 4 THEN HdrErr("StructError")
    ELSE [err |-> "ok", n |-> UnpackLE(Read(d, 8, 8)), dim |-> UnpackLE(Read(d, 16, 4))]

(***************************************************************************)
(* The arguments the callers pass.                                         *)
(***************************************************************************)
FloatVals == <<"1.0", "-2.5", "0.0">>

\* one embedding of each length 0..MaxDim+1
Embedding(n) == [i \in 1..n |-> FloatVals[((i - 1) % 3) + 1]]

Embeddings == {Embedding(n) : n \in 0..(MaxDim + 1)}

\* metadata: bytes b"abc", the text "Mé" (2 characters, 3 bytes in UTF-8),
\* and a list, which is neither bytes nor text
Metas == {[t |-> "bytes", v |-> <<97, 98, 99>>],
          [t |-> "str", v |-> <<77, 233>>],
          [t |-> "list", v |-> <<1>>]}

\* record_id: <<>> is None, <<b>> is the bytes b
RecordIds == {<<>>, <<[i \in 1..16 |-> 171]>>, <<[i \in 1..15 |-> 171]>>}

\* uuid.uuid4().bytes: 16 random bytes carrying the version and variant bits
Uuid4 == {[i \in 1..16 |-> IF i = 7 THEN 64 + (b % 16)
                           ELSE IF i = 9 THEN 128 + (b % 64) ELSE b] : b \in {17, 34}}

\* the dimensions passed to create: ordinary ones, a negative one, a huge one
DimInputs == (0..MaxDim) \cup {-1, 2147483647}

\* len(metadata)
MetaLen(m) == Len(m.v)

(***************************************************************************)
(* insert                                                                  *)
(*                                                                         *)
(* One call is a sequence of steps: the header read with the checks of the *)
(* arguments (nothing is written yet), the four f.write calls on the file  *)
(* opened for appending, and the header patch on the file opened "r+b".    *)
(* Each f.write is taken to reach the file when it is made: the buffered   *)
(* writer may flush after any of them, and flushes at the latest when the  *)
(* with block is left, by return or by exception.  A process that dies     *)
(* before a flush leaves a shorter prefix of the record, which is the      *)
(* state of a process dying one or more steps earlier.                     *)
(***************************************************************************)
NoLocals == [n_records |-> 0, dim |-> 0, record_id |-> <<>>,
             embedding |-> <<>>, metadata |-> [t |-> "bytes", v |-> <<>>]]

\* The outcome of a call: the operation, its arguments as far as the
\* properties speak of them (create: <<dim>>; insert: <<len(embedding),
\* len(record_id)>>, -1 standing for no record_id), "ok" or the error raised,
\* and the value returned.
Outcome(op, arg, err, val) == [op |-> op, arg |-> arg, err |-> err, val |-> val]

InsertArgs(embedding, record_id) ==
    <<Len(embedding), IF record_id = <<>> THEN -1 ELSE Len(record_id[1])>>

\* A dimension check that lets any length pass.
DimOkNone(embedding, dim) == TRUE

\* line 41
DimOk(embedding, dim) == Len(embedding) = dim

\* A record id check that lets shorter identifiers pass.
IdOkShort(record_id) == Len(record_id) <= 16

\* line 48
IdOk(record_id) == Len(record_id) = 16

\* insert patching the header before it appends the record.
InsertOrderPatchFirst == <<"patch", "write_id", "write_emb", "write_len", "write_meta">>

\* The order of insert's file operations (lines 57, 59, 61, 64, 69-71).
InsertOrder == <<"write_id", "write_emb", "write_len", "write_meta", "patch">>

NextPc(at) ==
    LET i == CHOOSE k \in 1..Len(InsertOrder) : InsertOrder[k] = at
    IN IF i = Len(InsertOrder) THEN "idle" ELSE InsertOrder[i + 1]

\* The count re-read from the file when the header is patched.
NewCountReread(p) == GetHeaderInfo(exists, data).n + 1

\* The count written back as it was read.
NewCountSame(p) == loc[p].n_records

\* line 71: n_records + 1, n_records being what line 40 read
NewCount(p) == loc[p].n_records + 1

\* line 70
SeekOffset == 4 + 4

\* The call ends by raising err.
Raise(p, op, arg, err) ==
    /\ pc' = [pc EXCEPT ![p] = "idle"]
    /\ loc' = [loc EXCEPT ![p] = NoLocals]
    /\ result' = [result EXCEPT ![p] = Outcome(op, arg, err, <<>>)]

\* The step at pc[p] is done: on to the next one, or insert returns.
Advance(p) ==
    LET nxt == NextPc(pc[p])
    IN IF nxt = "idle"
       THEN /\ pc' = [pc EXCEPT ![p] = "idle"]
            /\ loc' = [loc EXCEPT ![p] = NoLocals]
            /\ result' = [result EXCEPT ![p] = Outcome("insert", result[p].arg, "ok", <<>>)]
            /\ nSucc' = nSucc + 1
       ELSE /\ pc' = [pc EXCEPT ![p] = nxt]
            /\ UNCHANGED <<loc, result, nSucc>>

\* Lines 38-53: the header is read and the arguments are validated.
InsertCall(p, embedding, metadata, record_id) ==
    /\ pc[p] = "idle"
    /\ calls < MaxInserts
    /\ calls' = calls + 1
    /\ began' = [began EXCEPT ![p] =
         [size |-> Len(data), count |-> GetHeaderInfo(exists, data).n]]
    /\ LET h == GetHeaderInfo(exists, data)
           args == InsertArgs(embedding, record_id)
       IN IF h.err # "ok" THEN Raise(p, "insert", args, h.err)
          ELSE IF ~DimOk(embedding, h.dim)
               THEN Raise(p, "insert", args, "DimensionMismatch")
          ELSE \E rid \in (IF record_id = <<>> THEN Uuid4 ELSE {record_id[1]}) :
                 IF ~IdOk(rid) THEN Raise(p, "insert", args, "InvalidArgument")
                 ELSE /\ pc' = [pc EXCEPT ![p] = InsertOrder[1]]
                      /\ loc' = [loc EXCEPT ![p] =
                                   [n_records |-> h.n, dim |-> h.dim, record_id |-> rid,
                                    embedding |-> embedding, metadata |-> metadata]]
                      /\ result' = [result EXCEPT ![p] =
                                      Outcome("insert", args, "running", <<>>)]
    /\ UNCHANGED <<exists, data, created, nSucc, appended, dpc, dstart>>

\* line 57 (line 55 opens the file for appending, creating it if missing)
WriteId(p) ==
    /\ pc[p] = "write_id"
    /\ exists' = TRUE
    /\ data' = data \o loc[p].record_id
    /\ Advance(p)
    /\ UNCHANGED <<created, calls, appended, began, dpc, dstart>>

\* line 59
WriteEmbedding(p) ==
    /\ pc[p] = "write_emb"
    /\ data' = data \o PackEmbedding(loc[p].embedding)
    /\ Advance(p)
    /\ UNCHANGED <<exists, created, calls, appended, began, dpc, dstart>>

\* line 61
WriteMetaLen(p) ==
    /\ pc[p] = "write_len"
    /\ data' = data \o PackI(MetaLen(loc[p].metadata))
    /\ Advance(p)
    /\ UNCHANGED <<exists, created, calls, appended, began, dpc, dstart>>

\* lines 63-66: bytes are written as they are; text makes f.write raise
\* TypeError and is written encoded; anything else has no encode and the
\* call ends with AttributeError, the record left without its payload.
WriteMetadata(p) ==
    /\ pc[p] = "write_meta"
    /\ LET m == loc[p].metadata
       IN IF m.t \in {"bytes", "str"}
          THEN /\ data' = data \o (IF m.t = "bytes" THEN m.v ELSE Utf8(m.v))
               /\ appended' = appended + 1
               /\ Advance(p)
          ELSE /\ Raise(p, "insert", result[p].arg, "AttributeError")
               /\ UNCHANGED <<data, appended, nSucc>>
    /\ UNCHANGED <<exists, created, calls, began, dpc, dstart>>

\* lines 69-71
PatchHeader(p) ==
    /\ pc[p] = "patch"
    /\ CanPackQ(NewCount(p))
    /\ data' = Overwrite(data, SeekOffset, PackQ(NewCount(p)))
    /\ Advance(p)
    /\ UNCHANGED <<exists, created, calls, appended, began, dpc, dstart>>

InsertStep(p) ==
    \/ WriteId(p)
    \/ WriteEmbedding(p)
    \/ WriteMetaLen(p)
    \/ WriteMetadata(p)
    \/ PatchHeader(p)

\* The calling process dies inside insert; what it wrote stays in the file.
Crash(p) ==
    /\ pc[p] # "idle"
    /\ pc' = [pc EXCEPT ![p] = "idle"]
    /\ loc' = [loc EXCEPT ![p] = NoLocals]
    /\ result' = [result EXCEPT ![p] = Outcome("insert", result[p].arg, "crashed", <<>>)]
    /\ UNCHANGED <<exists, data, created, calls, nSucc, appended, began, dpc, dstart>>

\* A call of get_header_info (lines 23-36).
GetHeaderInfoCall(p) ==
    /\ pc[p] = "idle"
    /\ LET h == GetHeaderInfo(exists, data)
       IN result' = [result EXCEPT ![p] =
            Outcome("get_header_info", <<>>, h.err,
                    IF h.err = "ok" THEN <<h.n, h.dim>> ELSE <<>>)]
    /\ UNCHANGED <<exists, data, pc, loc, created, calls, nSucc, appended,
                   began, dpc, dstart>>

\* A call of create (lines 9-20): the path is opened "wb", which truncates.
Create(p, dim) ==
    /\ \A q \in ProcIds : pc[q] = "idle"
    /\ exists' = TRUE
    /\ data' = CreateWrites(dim)
    /\ result' = [result EXCEPT ![p] =
         Outcome("create", <<dim>>, IF CanPackI(dim) THEN "ok" ELSE "StructError", <<>>)]
    /\ created' = [ok |-> CanPackI(dim), dim |-> dim]
    /\ calls' = 0
    /\ nSucc' = 0
    /\ appended' = 0
    /\ UNCHANGED <<pc, loc, began, dpc, dstart>>

(***************************************************************************)
(* One caller at a time: create, get_header_info and insert on one path,   *)
(* the caller possibly dying inside insert.                                *)
(***************************************************************************)
NoOutcome == Outcome("none", <<>>, "none", <<>>)

InitCommon ==
    /\ pc = [p \in ProcIds |-> "idle"]
    /\ loc = [p \in ProcIds |-> NoLocals]
    /\ result = [p \in ProcIds |-> NoOutcome]
    /\ calls = 0
    /\ nSucc = 0
    /\ appended = 0
    /\ began = [p \in ProcIds |-> [size |-> 0, count |-> 0]]
    /\ dpc = "off"
    /\ dstart = FALSE

Init ==
    /\ InitCommon
    /\ exists = FALSE
    /\ data = <<>>
    /\ created = [ok |-> FALSE, dim |-> 0]

Next ==
    \/ \E d \in DimInputs : Create(1, d)
    \/ GetHeaderInfoCall(1)
    \/ \E e \in Embeddings, m \in Metas, r \in RecordIds : InsertCall(1, e, m, r)
    \/ InsertStep(1)
    \/ Crash(1)

Spec == Init /\ [][Next]_vars

(***************************************************************************)
(* Two callers inserting concurrently into one created store: every step   *)
(* of one insert may fall between two steps of the other.                  *)
(***************************************************************************)
\* what the concurrent callers pass: byte metadata, no record_id
ConcMetas == {m \in Metas : m.t = "bytes"}

InitConc ==
    /\ InitCommon
    /\ exists = TRUE
    /\ data = CreateWrites(MaxDim)
    /\ created = [ok |-> TRUE, dim |-> MaxDim]

NextConc ==
    \E p \in ProcIds :
        \/ \E e \in Embeddings, m \in ConcMetas : InsertCall(p, e, m, <<>>)
        \/ InsertStep(p)

SpecConc == InitConc /\ [][NextConc]_vars

(***************************************************************************)
(* get_header_info on files of any origin: each header field right or      *)
(* wrong, the file whole or cut short.                                     *)
(***************************************************************************)
Magics == {MAGIC, <<89, 65, 86, 88>>, <<88, 65, 86, 83>>, <<121, 97, 118, 115>>}

Versions == {0, 1, 2, 256, 16777216, 16777217}

HeaderFiles ==
    {SubSeq(m \o PackI(v) \o PackQ(n) \o PackI(d) \o Zeros(RESERVED_SIZE), 1, k) :
        m \in Magics, v \in Versions, n \in 0..MaxInserts, d \in 0..MaxDim,
        k \in {0, 3, 4, 7, 8, 16, 19, 20, HEADER_SIZE}}

InitHdr ==
    /\ InitCommon
    /\ exists = TRUE
    /\ data \in HeaderFiles
    /\ created = [ok |-> FALSE, dim |-> 0]

NextHdr == GetHeaderInfoCall(1)

SpecHdr == InitHdr /\ [][NextHdr]_vars

(***************************************************************************)
(* The driver script example.py.                                           *)
(***************************************************************************)
\* the names module yavs defines
YavsNames == {"struct", "uuid", "MAGIC", "VERSION", "RESERVED_SIZE", "HEADER_SIZE",
              "create", "get_header_info", "insert"}

\* line 9
dimension == 384

\* lines 13 and 17: "My first record", "Another piece of data"
Texts == <<
    <<77, 121, 32, 102, 105, 114, 115, 116, 32, 114, 101, 99, 111, 114, 100>>,
    <<65, 110, 111, 116, 104, 101, 114, 32, 112, 105, 101, 99, 101, 32, 111, 102,
      32, 100, 97, 116, 97>> >>

TextLine == <<"L13", "L17", "done">>

\* line 10
DriverExists ==
    /\ dpc = "L10"
    /\ dpc' = IF exists THEN "L13" ELSE "L11"
    /\ UNCHANGED <<exists, data, pc, loc, result, created, calls, nSucc, appended,
                   began, dstart>>

\* line 11
DriverCreate ==
    /\ dpc = "L11"
    /\ exists' = TRUE
    /\ data' = CreateWrites(dimension)
    /\ created' = [ok |-> CanPackI(dimension), dim |-> dimension]
    /\ result' = [result EXCEPT ![1] =
         Outcome("create", <<dimension>>,
                 IF CanPackI(dimension) THEN "ok" ELSE "StructError", <<>>)]
    /\ dpc' = IF CanPackI(dimension) THEN "L13" ELSE "raised"
    /\ UNCHANGED <<pc, loc, calls, nSucc, appended, began, dstart>>

\* lines 13-15 (i = 1) and 17-19 (i = 2): the text is embedded by the
\* collaborator into a vector of 384 floats, and yavs.append is called with
\* it; looking up a name the module does not define raises AttributeError.
\* Were the name bound to insert, the call would run insert to its end.
DriverAppend(i) ==
    /\ dpc = TextLine[i]
    /\ IF "append" \in YavsNames
       THEN LET h == GetHeaderInfo(exists, data)
                e == Embedding(dimension)
                m == [t |-> "str", v |-> Texts[i]]
            IN IF h.err # "ok" \/ ~DimOk(e, h.dim)
               THEN /\ dpc' = "raised"
                    /\ result' = [result EXCEPT ![1] =
                         Outcome("insert", InsertArgs(e, <<>>),
                                 IF h.err # "ok" THEN h.err ELSE "DimensionMismatch",
                                 <<>>)]
                    /\ UNCHANGED data
               ELSE /\ \E rid \in Uuid4 :
                         data' = Overwrite(data \o rid \o PackEmbedding(e)
                                                \o PackI(MetaLen(m)) \o Utf8(m.v),
                                           SeekOffset, PackQ(h.n + 1))
                    /\ dpc' = TextLine[i + 1]
                    /\ result' = [result EXCEPT ![1] = Outcome("insert", InsertArgs(e, <<>>), "ok", <<>>)]
       ELSE /\ dpc' = "raised"
            /\ result' = [result EXCEPT ![1] = Outcome("append", <<>>, "AttributeError", <<>>)]
            /\ UNCHANGED data
    /\ UNCHANGED <<exists, pc, loc, created, calls, nSucc, appended, began, dstart>>

InitDriver ==
    /\ pc = [p \in ProcIds |-> "idle"]
    /\ loc = [p \in ProcIds |-> NoLocals]
    /\ result = [p \in ProcIds |-> NoOutcome]
    /\ calls = 0
    /\ nSucc = 0
    /\ appended = 0
    /\ began = [p \in ProcIds |-> [size |-> 0, count |-> 0]]
    /\ dpc = "L10"
    /\ created = [ok |-> FALSE, dim |-> 0]
    /\ \/ exists = FALSE /\ data = <<>> /\ dstart = FALSE
       \/ exists = TRUE /\ data \in HeaderFiles /\ dstart = TRUE

NextDriver ==
    \/ DriverExists
    \/ DriverCreate
    \/ \E i \in 1..2 : DriverAppend(i)

SpecDriver == InitDriver /\ [][NextDriver]_vars

(***************************************************************************)
(* Properties.  The header fields are read off the bytes of the file.      *)
(***************************************************************************)
MagicField == Read(data, 0, 4)

VersionField == UnpackLE(Read(data, 4, 4))

CountField == UnpackLE(Read(data, 8, 8))

DimField == UnpackLE(Read(data, 16, 4))

ReservedField == Read(data, 20, 16)

\* A step that is a call of insert: no other step counts a call.
InsertCalled == calls' = calls + 1

\* C1: after N successful sequential inserts into a freshly created store of
\* dimension d (N >= 0, one writer), get_header_info returns (N, d): the
\* header holds that pair, and a call of get_header_info returns it.
C1_CountIncrement ==
    created.ok =>
        /\ GetHeaderInfo(exists, data) = [err |-> "ok", n |-> nSucc, dim |-> created.dim]
        /\ CountField = nSucc
        /\ result[1].op = "get_header_info" =>
             result[1].err = "ok" /\ result[1].val = <<nSucc, created.dim>>

C1_Witness ==
    /\ created.ok
    /\ nSucc = MaxInserts
    /\ result[1].op = "get_header_info"
    /\ result[1].val = <<MaxInserts, created.dim>>

\* C2 as stated: for every dimension d passed to create, non-positive and
\* huge values included, create completes without raising and a following
\* get_header_info returns exactly (0, d).
C2_AnyDimensionAccepted ==
    result[1].op = "create" =>
        /\ result[1].err = "ok"
        /\ GetHeaderInfo(exists, data) = [err |-> "ok", n |-> 0, dim |-> result[1].arg[1]]

\* C2 as amended: for every dimension d with 0 <= d <= 2^32 - 1 (zero and
\* huge values included) create completes without raising and a following
\* get_header_info returns exactly (0, d); for a negative d create raises,
\* leaving the 16 bytes written before the dimension, on which
\* get_header_info fails.
C2_HeaderRoundTrip ==
    result[1].op = "create" =>
        IF result[1].arg[1] >= 0
        THEN /\ result[1].err = "ok"
             /\ Len(data) = HEADER_SIZE
             /\ GetHeaderInfo(exists, data) = [err |-> "ok", n |-> 0, dim |-> result[1].arg[1]]
        ELSE /\ result[1].err = "StructError"
             /\ Len(data) = 16
             /\ GetHeaderInfo(exists, data).err = "StructError"

C2_Witness ==
    /\ result[1].op = "create"
    /\ result[1].arg = <<2147483647>>
    /\ result[1].err = "ok"
    /\ DimField = 2147483647
    /\ CountField = 0

\* C3: an insert whose embedding length differs from the store's declared
\* dimension fails with DimensionMismatch and leaves the file unchanged
\* (same bytes, so same record count and same size), whatever the store
\* holds and whatever metadata and record_id are passed.
C3_DimensionEnforced ==
    [][(created.ok /\ InsertCalled /\ result'[1].arg[1] # created.dim) =>
          /\ result'[1].err = "DimensionMismatch"
          /\ pc'[1] = "idle"
          /\ exists' = exists
          /\ data' = data
          /\ CountField' = CountField
          /\ Len(data') = Len(data)]_vars

C3_Witness ==
    /\ created.ok
    /\ appended >= 1
    /\ result[1].op = "insert"
    /\ result[1].err = "DimensionMismatch"

\* C4: when a record has been appended, its metadata_length field equals
\* the number of payload bytes written after it, the payload of a text being
\* its UTF-8 encoding, so the file has grown by exactly
\* 16 + 4*dimension + 4 + metadata_length bytes.
C4_MetadataLength ==
    pc[1] = "patch" =>
        LET dim == loc[1].dim
            at == began[1].size + 16 + 4 * dim
            metadata_length == UnpackLE(Read(data, at, 4))
            payload == Read(data, at + 4, Len(data))
        IN /\ metadata_length = Len(payload)
           /\ loc[1].metadata.t = "str" => payload = Utf8(loc[1].metadata.v)
           /\ Len(data) - began[1].size = 16 + 4 * dim + 4 + metadata_length

\* C5: the header's record count never exceeds the number of complete
\* records in the file, at any moment of any sequence of inserts, inserts
\* that fail or whose process dies between or within their steps included;
\* the header is patched only once the record is there.
C5_NeverOverstates ==
    created.ok =>
        /\ CountField <= appended
        /\ pc[1] = "patch" => CountField < appended

C5_Witness ==
    /\ created.ok
    /\ result[1].err = "crashed"
    /\ CountField < appended
    /\ Len(data) > HEADER_SIZE

\* C6: when two concurrent inserts have both succeeded after reading the
\* same previous count, the header holds previous + 1, which is smaller
\* than the number of records appended.
C6_LostUpdate ==
    (/\ \A p \in ProcIds : pc[p] = "idle" /\ result[p].err = "ok"
     /\ began[1].count = began[2].count) =>
        /\ CountField = began[1].count + 1
        /\ CountField < appended
        /\ CountField < nSucc

C6_Witness ==
    /\ \A p \in ProcIds : pc[p] = "idle" /\ result[p].err = "ok"
    /\ began[1].count = 0
    /\ began[2].count = 0
    /\ nSucc = 2
    /\ appended = 2
    /\ CountField = 1

\* C7: a run of the driver that finds no file at its path ends without
\* error, and get_header_info then returns (2, 384).
C7_DriverRun ==
    (~dstart /\ dpc \in {"done", "raised"}) =>
        /\ dpc = "done"
        /\ GetHeaderInfo(exists, data) = [err |-> "ok", n |-> 2, dim |-> 384]

\* C8: get_header_info fails with InvalidFormat whenever the first 4 bytes
\* differ from the magic, whatever the version field holds; with
\* VersionMismatch whenever the magic is right and the version field is not
\* 1; and returns (record count, dimension) only when both are right.
C8_MagicThenVersion ==
    result[1].op = "get_header_info" =>
        /\ MagicField # MAGIC => result[1].err = "InvalidFormat"
        /\ (MagicField = MAGIC /\ Len(data) >= 8 /\ VersionField # 1) =>
              result[1].err = "VersionMismatch"
        /\ result[1].err = "ok" =>
              /\ MagicField = MAGIC
              /\ VersionField = 1
              /\ result[1].val = <<CountField, DimField>>
        /\ (MagicField = MAGIC /\ VersionField = 1 /\ Len(data) >= 20) =>
              result[1].err = "ok"

C8_Witness ==
    /\ result[1].op = "get_header_info"
    /\ result[1].err = "VersionMismatch"
    /\ MagicField = MAGIC
    /\ VersionField = 16777217
    /\ Len(data) = HEADER_SIZE

\* C9 as stated: an insert given a record_id whose length is not 16 fails
\* with InvalidArgument, nothing written; an insert given none writes a
\* generated identifier of 16 bytes.
C9_BadIdIsInvalidArgument ==
    [][/\ (created.ok /\ InsertCalled /\ result'[1].arg[2] \notin {-1, 16}) =>
            /\ result'[1].err = "InvalidArgument"
            /\ pc'[1] = "idle"
            /\ data' = data
       /\ (created.ok /\ InsertCalled /\ result'[1].arg = <<created.dim, -1>>) =>
            /\ pc'[1] = "write_id"
            /\ loc'[1].record_id \in Uuid4
       /\ WriteId(1) =>
            /\ Len(loc[1].record_id) = 16
            /\ data' = data \o loc[1].record_id]_vars

\* C9 as amended: an insert given a record_id whose length is not 16 fails
\* before anything is written, with InvalidArgument when the embedding has
\* the store's dimension and with DimensionMismatch when it has not; an
\* insert given none writes a generated identifier of 16 bytes.
C9_RecordIdValidation ==
    [][/\ (created.ok /\ InsertCalled /\ result'[1].arg[2] \notin {-1, 16}) =>
            /\ result'[1].err = IF result'[1].arg[1] = created.dim
                                THEN "InvalidArgument"
                                ELSE "DimensionMismatch"
            /\ pc'[1] = "idle"
            /\ data' = data
       /\ (created.ok /\ InsertCalled /\ result'[1].arg = <<created.dim, -1>>) =>
            /\ pc'[1] = "write_id"
            /\ loc'[1].record_id \in Uuid4
       /\ WriteId(1) =>
            /\ Len(loc[1].record_id) = 16
            /\ data' = data \o loc[1].record_id]_vars

C9_Witness ==
    /\ created.ok
    /\ appended >= 1
    /\ result[1].op = "insert"
    /\ result[1].err = "InvalidArgument"
    /\ Len(data) > HEADER_SIZE

\* C10: a step of insert or of get_header_info, succeeding or failing,
\* leaves every byte the file had outside the record count field (offsets
\* 8 to 15) as it was, magic, version, dimension, reserved bytes and earlier
\* records included, and removes none; get_header_info changes nothing.
C10_Frame ==
    [][(InsertCalled \/ InsertStep(1) \/ Crash(1) \/ GetHeaderInfoCall(1)) =>
         /\ exists =>
              /\ exists'
              /\ Len(data') >= Len(data)
              /\ Read(data', 0, 8) = Read(data, 0, 8)
              /\ SubSeq(data', 17, Len(data)) = SubSeq(data, 17, Len(data))
         /\ created.ok =>
              /\ MagicField' = MAGIC
              /\ VersionField' = VERSION
              /\ DimField' = created.dim
              /\ ReservedField' = Zeros(RESERVED_SIZE)
         /\ GetHeaderInfoCall(1) => (data' = data /\ exists' = exists)]_vars

C10_Witness ==
    /\ created.ok
    /\ nSucc = 2
    /\ appended = 2
    /\ pc[1] = "idle"
    /\ result[1].err = "ok"

====
